---- MODULE Spec2Model ----
(***************************************************************************)
(* Asynchronous job orchestration of the video recognition API:            *)
(*   JobService (in-memory job store with a purge timer per job),          *)
(*   DownloadService.downloadVideo / cleanupFile,                          *)
(*   GeminiService.processVideo (upload, readiness poll loop, generation), *)
(*   VideoController.createJob / processVideoInBackground / processVideo / *)
(*   getJobStatus,                                                         *)
(*   the middleware authenticateApiKey and validateVideoProcessRequest.    *)
(*                                                                         *)
(* Node runs every handler to its next await without interleaving; an      *)
(* action is one such turn.  The only turn that is split in two is         *)
(* createJob (store insert + 202 response, then the synchronous head of    *)
(* processVideoInBackground): `turn` holds the run that owns the thread    *)
(* in between, and every other action is disabled while it is set.         *)
(*                                                                         *)
(* Strings that the code inspects (content types) are sequences of         *)
(* tokens, so that split(";"), trim() and toLowerCase() do real work.      *)
(***************************************************************************)
EXTENDS Integers, Sequences, FiniteSets, TLC

\* ------------------------------------------------------------------ bounds
\* request slots: each becomes a background job or a synchronous run
MaxRuns == 2
\* the clock advances in steps of RetentionMs \div TicksPerRetention, up to
\* MaxTicks such steps
TicksPerRetention == 1
MaxTicks == 1
MaxTicksSolo == 2
\* "not ready" answers per upload where several requests run concurrently
MaxNotReady == 1
\* milliseconds the fine-grained clock of SpecClock runs for
MaxClockMs == 7

\* ------------------------------------------------------- program constants
\* setTimeout(..., 3600000) in JobService.createJob
RetentionMs == 3600000
\* const maxAttempts = 60 in GeminiService.processVideo
maxAttempts == 60
\* setTimeout(resolve, 10000) between two polls
PollDelayMs == 10000

\* ------------------------------------------------------------------ values
Undefined == "undefined"
NoHeader == <<>>
NoPath == [name |-> 0, ext |-> ""]
NoTiming == <<>>
NoResp == [code |-> 0]
NoRun == {}

Runs == 1 .. MaxRuns
TickMs == RetentionMs \div TicksPerRetention
MaxTime == MaxTicks * TickMs
MaxTimeSolo == MaxTicksSolo * TickMs

\* ------------------------------------------------------------ content types
OctetStream == <<"application/octet-stream">>

\* String.prototype.toLowerCase on one token
LowerTok(t) ==
  CASE t = "Video/WebM" -> "video/webm"
    [] t = "VIDEO/MP4" -> "video/mp4"
    [] OTHER -> t

ToLowerCase(s) == [i \in DOMAIN s |-> LowerTok(s[i])]

\* s.split(";")[0]
RECURSIVE SplitFirst(_)
SplitFirst(s) ==
  IF s = <<>> \/ Head(s) = ";" THEN <<>> ELSE <<Head(s)>> \o SplitFirst(Tail(s))

\* s.trim()
RECURSIVE TrimLeft(_)
TrimLeft(s) == IF s # <<>> /\ Head(s) = " " THEN TrimLeft(Tail(s)) ELSE s

RECURSIVE TrimRight(_)
TrimRight(s) ==
  IF s # <<>> /\ s[Len(s)] = " " THEN TrimRight(SubSeq(s, 1, Len(s) - 1)) ELSE s

Trim(s) == TrimRight(TrimLeft(s))

\* private readonly videoMimeTypes
videoMimeTypes ==
  (<<"video/mp4">> :> ".mp4") @@ (<<"video/webm">> :> ".webm") @@
  (<<"video/ogg">> :> ".ogv") @@ (<<"video/quicktime">> :> ".mov") @@
  (<<"video/x-msvideo">> :> ".avi") @@ (<<"video/x-matroska">> :> ".mkv") @@
  (<<"video/3gpp">> :> ".3gp") @@ (<<"video/x-flv">> :> ".flv") @@
  (OctetStream :> ".mp4")

\* getExtensionFromMimeType that looks the type up without lower-casing it
getExtensionFromMimeType_m(mimeType) ==
  LET cleanMimeType == Trim(SplitFirst(mimeType))
  IN IF cleanMimeType \in DOMAIN videoMimeTypes
       THEN videoMimeTypes[cleanMimeType] ELSE ".mp4"

getExtensionFromMimeType(mimeType) ==
  LET cleanMimeType == ToLowerCase(Trim(SplitFirst(mimeType)))
  IN IF cleanMimeType \in DOMAIN videoMimeTypes
       THEN videoMimeTypes[cleanMimeType] ELSE ".mp4"

\* contentType after the HEAD request: header || "application/octet-stream"
HeadContentType(headHeader) ==
  IF headHeader # NoHeader THEN headHeader ELSE OctetStream

\* contentType after the GET response: the response header when present
DeclaredContentType(contentType, responseHeader) ==
  IF responseHeader # NoHeader THEN responseHeader ELSE contentType

\* mimeType of the DownloadResult: contentType.split(";")[0].trim()
CleanMimeType(contentType) == Trim(SplitFirst(contentType))


\* ------------------------------------------------------------------ inputs
\* video URLs, as token sequences
UrlMp4 == <<"https://", "example.com", "/", "a", ".mp4">>
UrlTikTok == <<"https://", "v16.", "tiktokcdn.com", "/", "video", "/", "tos">>
UrlWebm == <<"https://", "example.com", "/", "clip", ".webm">>

UrlFtp == <<"ftp://", "example.com", "/", "a", ".mp4">>
NoUrl == <<>>

\* process.env.API_KEY, which server.ts requires to be set at start-up
ConfiguredApiKey == "secret"
\* an absent x-api-key header or apiKey query parameter
NoKey == ""

\* prompts, and String.prototype.length on them
LongPrompt == "a prompt of 5001 characters"
PromptMax == 5000
PromptLength(prompt) ==
  CASE prompt = "" -> 0
    [] prompt = LongPrompt -> PromptMax + 1
    [] OTHER -> 18

\* requests: the x-api-key header, the apiKey query parameter and the body
\* { videoUrl, prompt? }
Requests ==
  { [header |-> ConfiguredApiKey, query |-> NoKey,
     videoUrl |-> UrlMp4, prompt |-> Undefined],
    [header |-> ConfiguredApiKey, query |-> NoKey,
     videoUrl |-> UrlTikTok, prompt |-> "describe the scene"] }

AllRequests ==
  Requests \cup
  { [header |-> ConfiguredApiKey, query |-> NoKey,
     videoUrl |-> UrlWebm, prompt |-> Undefined],
    [header |-> NoKey, query |-> ConfiguredApiKey,
     videoUrl |-> UrlMp4, prompt |-> Undefined] }

\* requests with a missing or wrong key, or with a body Joi rejects
BadKeys ==
  { [header |-> NoKey, query |-> NoKey], [header |-> "wrong", query |-> NoKey],
    [header |-> "wrong", query |-> ConfiguredApiKey],
    [header |-> NoKey, query |-> "wrong"] }

BadBodies ==
  { [videoUrl |-> NoUrl, prompt |-> Undefined],
    [videoUrl |-> UrlFtp, prompt |-> Undefined],
    [videoUrl |-> UrlMp4, prompt |-> ""],
    [videoUrl |-> UrlMp4, prompt |-> LongPrompt] }

BadRequests ==
  { [header |-> k.header, query |-> k.query,
     videoUrl |-> UrlMp4, prompt |-> Undefined] : k \in BadKeys }
  \cup
  { [header |-> ConfiguredApiKey, query |-> NoKey,
     videoUrl |-> b.videoUrl, prompt |-> b.prompt] : b \in BadBodies }
  \cup
  { [header |-> "wrong", query |-> NoKey, videoUrl |-> NoUrl, prompt |-> Undefined] }

\* values thrown by axios, the file system and the Gemini client
NetworkError == [isError |-> TRUE, message |-> "Request failed with status code 404"]
NonError == [isError |-> FALSE, message |-> ""]
Thrown == {NetworkError, NonError}

\* error instanceof Error ? error.message : "Unknown error"
ErrorMessage(error) == IF error.isError THEN error.message ELSE "Unknown error"

TimeoutMessage == "Timeout waiting for video file to become active"
NoNameMessage == "Video file name not found"
NoResultMessage == "Failed to process video with Gemini"

\* file states reported by ai.files.get
FileStates == {"ACTIVE", "PROCESSING", "FAILED"}

\* response.text of generateContent; "" stands for an absent text
Texts == {"a summary", ""}

\* ------------------------------------------------------------------- state
VARIABLES
  now,        \* Date.now(), in ms
  jobs,       \* JobService.jobs: id -> Job
  timers,     \* pending setTimeout callbacks of createJob: [id, due]
  born,       \* id -> creation time, kept after the purge (history)
  run,        \* per request slot: the handler's locals and its position
  turn,       \* {r}: the createJob turn of run r holds the thread; else NoRun
  files,      \* the paths that exist in tempDir
  resp,       \* per request slot: the HTTP response sent, or NoResp
  statusResp, \* the response of the last GET /api/jobs/:jobId
  statusReq   \* the key that request carried (history)

vars == <<now, jobs, timers, born, run, turn, files, resp, statusResp, statusReq>>

IdleRun ==
  [ kind |-> "none", pc |-> "idle", videoUrl |-> <<>>, prompt |-> Undefined,
    jobId |-> 0, startTime |-> 0, downloadStart |-> 0, downloadTime |-> 0,
    uploadStart |-> 0, tempFilePath |-> NoPath, finalFilePath |-> NoPath,
    contentType |-> <<>>, filePath |-> NoPath, mimeType |-> <<>>,
    attempts |-> 0, fileReady |-> FALSE, waited |-> 0,
    polls |-> 0, generated |-> FALSE, analyze |-> "none", unlinkFailed |-> {},
    apiKey |-> "", downloads |-> 0, analyses |-> 0, marked |-> <<>>,
    readyAt |-> 0, probe |-> "none", headHeader |-> NoHeader,
    responseHeader |-> NoHeader, effects |-> <<>> ]

Init ==
  /\ now = 0
  /\ jobs = <<>>
  /\ timers = {}
  /\ born = <<>>
  /\ run = [r \in Runs |-> IdleRun]
  /\ turn = NoRun
  /\ files = {}
  /\ resp = [r \in Runs |-> NoResp]
  /\ statusResp = NoResp
  /\ statusReq = [apiKey |-> NoKey]

\* a generator that repeats itself: the k-th call of every request returns
\* the same value
uuidv4_m(r, k) == k

\* uuidv4(): a value no other call returns. A request makes at most three
\* calls (the job id, the temp file name, the final file name); this is the
\* k-th call made for request r.
uuidv4(r, k) == 3 * (r - 1) + k

\* ------------------------------------------------------------------ middleware
\* req.headers["x-api-key"] || req.query.apiKey
ApiKeyOf(req) == IF req.header # NoKey THEN req.header ELSE req.query

\* authenticateApiKey: the response it sends, or NoResp when it calls next()
authenticateApiKey_m(req, configuredApiKey) ==
  LET apiKey == ApiKeyOf(req)
  IN IF configuredApiKey = NoKey
       THEN [code |-> 500, success |-> FALSE, error |-> "Server configuration error"]
     ELSE IF apiKey = NoKey
       THEN [code |-> 401, success |-> FALSE, error |-> "API key required",
             message |-> "Please provide an API key in the x-api-key header or apiKey query parameter"]
     ELSE NoResp

authenticateApiKey(req, configuredApiKey) ==
  LET apiKey == ApiKeyOf(req)
  IN IF configuredApiKey = NoKey
       THEN [code |-> 500, success |-> FALSE, error |-> "Server configuration error"]
     ELSE IF apiKey = NoKey
       THEN [code |-> 401, success |-> FALSE, error |-> "API key required",
             message |-> "Please provide an API key in the x-api-key header or apiKey query parameter"]
     ELSE IF apiKey # configuredApiKey
       THEN [code |-> 401, success |-> FALSE, error |-> "Invalid API key"]
     ELSE NoResp

\* the Joi schema: the message of the first error, or "" when there is none
ValidationError(body) ==
  IF body.videoUrl = NoUrl THEN "videoUrl is required"
  ELSE IF body.videoUrl[1] \notin {"http://", "https://"}
    THEN "videoUrl must be a valid HTTP or HTTPS URL"
  ELSE IF body.prompt = Undefined THEN ""
  ELSE IF PromptLength(body.prompt) = 0 THEN "prompt is not allowed to be empty"
  ELSE IF PromptLength(body.prompt) > PromptMax
    THEN "prompt must not exceed 5000 characters"
  ELSE ""

\* validateVideoProcessRequest: the response it sends, or NoResp
validateVideoProcessRequest(req) ==
  IF ValidationError(req) # ""
    THEN [code |-> 400, success |-> FALSE, error |-> "Validation error",
          message |-> ValidationError(req)]
    ELSE NoResp

\* app.post(path, authenticateApiKey, validateVideoProcessRequest, handler):
\* the response of the first middleware that does not call next(), or NoResp
PostMiddleware(req) ==
  IF authenticateApiKey(req, ConfiguredApiKey) # NoResp
    THEN authenticateApiKey(req, ConfiguredApiKey)
    ELSE validateVideoProcessRequest(req)

\* ---------------------------------------------------------------- JobService
NewJob(id, videoUrl, prompt) ==
  [ id |-> id, status |-> "pending", videoUrl |-> videoUrl, prompt |-> prompt,
    result |-> Undefined, error |-> Undefined, processingTime |-> NoTiming,
    createdAt |-> now, updatedAt |-> now ]

\* { ...job, ...updates }: a merge that leaves updatedAt as it was
Merge_m(job, updates) ==
  [f \in DOMAIN job |->
     IF f \in DOMAIN updates THEN updates[f] ELSE job[f]]

\* { ...job, ...updates, updatedAt: new Date() }
Merge(job, updates) ==
  [f \in DOMAIN job |->
     IF f = "updatedAt" THEN now
     ELSE IF f \in DOMAIN updates THEN updates[f] ELSE job[f]]

\* updateJob that merges the updates into every record of the store
updateJob_m(jobId, updates) ==
  IF jobId \notin DOMAIN jobs THEN jobs
  ELSE [i \in DOMAIN jobs |-> Merge(jobs[i], updates)]

\* updateJob that inserts the updates under an id it does not find
updateJob_m2(jobId, updates) ==
  IF jobId \notin DOMAIN jobs THEN jobs @@ (jobId :> (updates @@ [id |-> jobId]))
  ELSE [jobs EXCEPT ![jobId] = Merge(jobs[jobId], updates)]

\* the store after updateJob(jobId, updates); an unknown id is left alone
updateJob(jobId, updates) ==
  IF jobId \notin DOMAIN jobs THEN jobs
  ELSE [jobs EXCEPT ![jobId] = Merge(jobs[jobId], updates)]

\* markProcessing whose update is lost
markProcessing_m(jobId) == jobs

\* markProcessing that also writes a timing breakdown
markProcessing_m2(jobId) ==
  updateJob(jobId, [status |-> "processing", processingTime |-> <<0, 0, 0, 0>>])

markProcessing(jobId) == updateJob(jobId, [status |-> "processing"])

\* markCompleted that stamps the record anew
markCompleted_m(jobId, result, processingTime) ==
  updateJob(jobId, [status |-> "completed", result |-> result,
                    processingTime |-> processingTime, createdAt |-> now])

markCompleted(jobId, result, processingTime) ==
  updateJob(jobId, [status |-> "completed", result |-> result,
                    processingTime |-> processingTime])

\* markFailed that stores the message in the wrong field
markFailed_m(jobId, error) ==
  updateJob(jobId, [status |-> "failed", result |-> error])

\* markFailed whose update is lost
markFailed_m2(jobId, error) == jobs

markFailed(jobId, error) ==
  updateJob(jobId, [status |-> "failed", error |-> error])

\* getJob(jobId): the record, or Undefined's stand-in NoJob
NoJob == [id |-> 0, status |-> "absent"]
getJob(jobId) == IF jobId \in DOMAIN jobs THEN jobs[jobId] ELSE NoJob

\* ----------------------------------------------------------- DownloadService
\* a cleanup that empties the temp directory, as cleanupTempDir would
cleanupFile_m(fs, filePath, unlinkOk) ==
  IF unlinkOk THEN {} ELSE fs

\* cleanupFile(filePath): unlinkSync may throw, which is caught and logged
cleanupFile(fs, filePath, unlinkOk) ==
  IF filePath \in fs /\ unlinkOk THEN fs \ {filePath} ELSE fs

\* the paths on which cleanupFile logged "Failed to cleanup file" (history)
UnlinkThrew(fs, filePath, unlinkOk) ==
  IF filePath \in fs /\ ~ unlinkOk THEN {filePath} ELSE {}


\* ------------------------------------------------------------ VideoController
\* a breakdown whose upload part is rounded up
ProcessingTime_m(rec) ==
  LET totalGeminiTime == now - rec.uploadStart
      uploadTime == (totalGeminiTime + 4) \div 5
  IN <<rec.downloadTime, uploadTime, totalGeminiTime - uploadTime,
       now - rec.startTime>>

\* processingTime: { download, upload, processing, total }, as a 4-tuple.
\* Math.floor(totalGeminiTime * 0.2) is totalGeminiTime \div 5 on integers.
ProcessingTime(rec) ==
  LET totalGeminiTime == now - rec.uploadStart
      uploadTime == totalGeminiTime \div 5
  IN <<rec.downloadTime, uploadTime, totalGeminiTime - uploadTime,
       now - rec.startTime>>

\* a 202 response built from the store after the pipeline was launched
JobCreateResponse_m(job) ==
  [code |-> 202, success |-> TRUE, jobId |-> job.id, status |-> "processing"]

JobCreateResponse(job) ==
  [code |-> 202, success |-> TRUE, jobId |-> job.id, status |-> job.status]

SuccessResponse(result, processingTime) ==
  [code |-> 200, success |-> TRUE, result |-> result,
   processingTime |-> processingTime]

FailureResponse(errorMessage) ==
  [code |-> 500, success |-> FALSE, error |-> "Failed to process video",
   message |-> errorMessage]

JobStatusResponse(job) ==
  [code |-> 200, success |-> TRUE, jobId |-> job.id, status |-> job.status,
   result |-> job.result, error |-> job.error,
   processingTime |-> job.processingTime,
   createdAt |-> job.createdAt, updatedAt |-> job.updatedAt]

NotFoundResponse(jobId) ==
  [code |-> 404, success |-> FALSE, error |-> "Job not found", jobId |-> jobId]

\* downloadVideo up to its first await (axios.head)
BeginDownload(r, rec) ==
  [rec EXCEPT !.downloadStart = now,
              !.downloads = @ + 1,
              !.tempFilePath = [name |-> uuidv4(r, 2), ext |-> ".tmp"],
              !.contentType = OctetStream,
              !.pc = "head"]

\* what the end of a run does, in the order of the code (history): the
\* cleanup of the partial file inside downloadVideo when the fetch failed,
\* then the response (res.json) or the terminal JobService call, then the
\* cleanupFile(filePath) of the finally block, which runs if filePath is set
Effects(rec, filePath, tag) ==
  (IF tag = "fetchFailed" THEN <<"cleanupTemp">> ELSE <<>>) \o
  <<IF rec.kind = "sync" THEN "respond" ELSE "mark">> \o
  (IF filePath # NoPath THEN <<"cleanup">> ELSE <<>>)

\* the terminal JobService call a background pipeline makes (history):
\* markCompleted(jobId, result, ...) or markFailed(jobId, message), and
\* whether updateJob found the record (it returns undefined otherwise)
Marked(rec, ok, value) ==
  IF rec.kind = "job"
    THEN <<[op |-> IF ok THEN "markCompleted" ELSE "markFailed", value |-> value,
            found |-> getJob(rec.jobId) # NoJob]>>
    ELSE <<>>

\* Settle whose cleanup runs on the success path only (no finally block)
Settle_m(r, fs, threw, filePath, ok, value, unlinkOk, tag) ==
  LET rec == run[r]
      processingTime == ProcessingTime(rec)
  IN /\ jobs' = IF rec.kind = "job"
                  THEN IF ok THEN markCompleted(rec.jobId, value, processingTime)
                             ELSE markFailed(rec.jobId, value)
                  ELSE jobs
     /\ resp' = IF rec.kind = "sync"
                  THEN [resp EXCEPT ![r] =
                          IF ok THEN SuccessResponse(value, processingTime)
                                ELSE FailureResponse(value)]
                  ELSE resp
     /\ files' = IF filePath # NoPath /\ ok
                  THEN cleanupFile(fs, filePath, unlinkOk) ELSE fs
     /\ run' = [run EXCEPT ![r].pc = "done", ![r].analyze = tag,
                           ![r].filePath = filePath,
                           ![r].probe = "none", ![r].headHeader = NoHeader,
                           ![r].responseHeader = NoHeader,
                           ![r].marked = @ \o Marked(rec, ok, value),
                           ![r].unlinkFailed =
                              threw \cup UnlinkThrew(fs, filePath, unlinkOk)]

\* Settle that starts the download again after a first failure
Settle_m2(r, fs, threw, filePath, ok, value, unlinkOk, tag) ==
  LET rec == run[r]
      processingTime == ProcessingTime(rec)
      retry == ~ ok /\ rec.downloads < 2
  IN /\ jobs' = IF rec.kind = "job" /\ ~ retry
                  THEN IF ok THEN markCompleted(rec.jobId, value, processingTime)
                             ELSE markFailed(rec.jobId, value)
                  ELSE jobs
     /\ resp' = IF rec.kind = "sync" /\ ~ retry
                  THEN [resp EXCEPT ![r] =
                          IF ok THEN SuccessResponse(value, processingTime)
                                ELSE FailureResponse(value)]
                  ELSE resp
     /\ files' = IF filePath # NoPath THEN cleanupFile(fs, filePath, unlinkOk)
                                      ELSE fs
     /\ run' = IF retry
                 THEN [run EXCEPT ![r] = BeginDownload(r, rec)]
                 ELSE [run EXCEPT ![r].pc = "done", ![r].analyze = tag,
                                  ![r].filePath = filePath,
                                  ![r].probe = "none", ![r].headHeader = NoHeader,
                                  ![r].responseHeader = NoHeader,
                                  ![r].marked = @ \o Marked(rec, ok, value),
                                  ![r].unlinkFailed =
                                     threw \cup UnlinkThrew(fs, filePath, unlinkOk)]

\* Settle in which a failed deletion of the file replaces the outcome
Settle_m3(r, fs, threw, filePath, ok, value, unlinkOk, tag) ==
  LET rec == run[r]
      processingTime == ProcessingTime(rec)
      unlinkThrew == UnlinkThrew(fs, filePath, unlinkOk) # {}
      okAfter == ok /\ ~ unlinkThrew
      valueAfter == IF unlinkThrew THEN "EPERM: operation not permitted, unlink"
                                   ELSE value
  IN /\ jobs' = IF rec.kind = "job"
                  THEN IF okAfter
                         THEN markCompleted(rec.jobId, valueAfter, processingTime)
                         ELSE markFailed(rec.jobId, valueAfter)
                  ELSE jobs
     /\ resp' = IF rec.kind = "sync"
                  THEN [resp EXCEPT ![r] =
                          IF okAfter THEN SuccessResponse(valueAfter, processingTime)
                                     ELSE FailureResponse(valueAfter)]
                  ELSE resp
     /\ files' = IF filePath # NoPath THEN cleanupFile(fs, filePath, unlinkOk)
                                      ELSE fs
     /\ run' = [run EXCEPT ![r].pc = "done", ![r].analyze = tag,
                           ![r].filePath = filePath,
                           ![r].probe = "none", ![r].headHeader = NoHeader,
                           ![r].responseHeader = NoHeader,
                           ![r].marked = @ \o Marked(rec, okAfter, valueAfter),
                           ![r].unlinkFailed =
                              threw \cup UnlinkThrew(fs, filePath, unlinkOk)]

\* Settle whose cleanup of the downloaded file comes before the response
Settle_m4(r, fs, threw, filePath, ok, value, unlinkOk, tag) ==
  LET rec == run[r]
      processingTime == ProcessingTime(rec)
  IN /\ jobs' = IF rec.kind = "job"
                  THEN IF ok THEN markCompleted(rec.jobId, value, processingTime)
                             ELSE markFailed(rec.jobId, value)
                  ELSE jobs
     /\ resp' = IF rec.kind = "sync"
                  THEN [resp EXCEPT ![r] =
                          IF ok THEN SuccessResponse(value, processingTime)
                                ELSE FailureResponse(value)]
                  ELSE resp
     /\ files' = IF filePath # NoPath THEN cleanupFile(fs, filePath, unlinkOk)
                                      ELSE fs
     /\ run' = [run EXCEPT ![r].pc = "done", ![r].analyze = tag,
                           ![r].filePath = filePath,
                           ![r].effects =
                              (IF filePath # NoPath THEN <<"cleanup">> ELSE <<>>)
                              \o <<IF rec.kind = "sync" THEN "respond"
                                                        ELSE "mark">>,
                           ![r].probe = "none", ![r].headHeader = NoHeader,
                           ![r].responseHeader = NoHeader,
                           ![r].marked = @ \o Marked(rec, ok, value),
                           ![r].unlinkFailed =
                              threw \cup UnlinkThrew(fs, filePath, unlinkOk)]

\* The end of a run: the success path or the catch block of
\* processVideoInBackground / processVideo, then its finally block.
\* fs: the files before the finally block and threw: the deletions that
\* failed in downloadVideo's own handlers; filePath: the controller's local.
Settle(r, fs, threw, filePath, ok, value, unlinkOk, tag) ==
  LET rec == run[r]
      processingTime == ProcessingTime(rec)
  IN /\ jobs' = IF rec.kind = "job"
                  THEN IF ok THEN markCompleted(rec.jobId, value, processingTime)
                             ELSE markFailed(rec.jobId, value)
                  ELSE jobs
     /\ resp' = IF rec.kind = "sync"
                  THEN [resp EXCEPT ![r] =
                          IF ok THEN SuccessResponse(value, processingTime)
                                ELSE FailureResponse(value)]
                  ELSE resp
     /\ files' = IF filePath # NoPath THEN cleanupFile(fs, filePath, unlinkOk)
                                      ELSE fs
     /\ run' = [run EXCEPT ![r].pc = "done", ![r].analyze = tag,
                           ![r].filePath = filePath,
                           ![r].effects = Effects(rec, filePath, tag),
                           ![r].probe = "none", ![r].headHeader = NoHeader,
                           ![r].responseHeader = NoHeader,
                           ![r].marked = @ \o Marked(rec, ok, value),
                           ![r].unlinkFailed =
                              threw \cup UnlinkThrew(fs, filePath, unlinkOk)]

\* createJob that takes a new job only when no pipeline is in flight
CreateJob_m(r, rq) ==
  /\ turn = NoRun
  /\ run[r].kind = "none"
  /\ \A q \in Runs : run[q].kind = "job" => run[q].pc = "done"
  /\ LET job == NewJob(uuidv4(r, 1), rq.videoUrl, rq.prompt)
     IN /\ jobs' = jobs @@ (job.id :> job)
        /\ timers' = timers \cup {[id |-> job.id, due |-> now + RetentionMs]}
        /\ born' = born @@ (job.id :> now)
        /\ resp' = [resp EXCEPT ![r] = JobCreateResponse(job)]
        /\ run' = [run EXCEPT ![r] =
                     [IdleRun EXCEPT !.kind = "job", !.pc = "launch",
                                     !.videoUrl = rq.videoUrl,
                                     !.prompt = rq.prompt, !.jobId = job.id,
                                     !.apiKey = ApiKeyOf(rq)]]
  /\ turn' = {r}
  /\ UNCHANGED <<now, files, statusResp, statusReq>>

\* createJob that gives the thread back before the pipeline is launched
CreateJob_m2(r, rq) ==
  /\ turn = NoRun
  /\ run[r].kind = "none"
  /\ LET job == NewJob(uuidv4(r, 1), rq.videoUrl, rq.prompt)
     IN /\ jobs' = jobs @@ (job.id :> job)
        /\ timers' = timers \cup {[id |-> job.id, due |-> now + RetentionMs]}
        /\ born' = born @@ (job.id :> now)
        /\ resp' = [resp EXCEPT ![r] = JobCreateResponse(job)]
        /\ run' = [run EXCEPT ![r] =
                     [IdleRun EXCEPT !.kind = "job", !.pc = "launch",
                                     !.videoUrl = rq.videoUrl,
                                     !.prompt = rq.prompt, !.jobId = job.id,
                                     !.apiKey = ApiKeyOf(rq)]]
  /\ turn' = NoRun
  /\ UNCHANGED <<now, files, statusResp, statusReq>>

\* POST /api/jobs: jobService.createJob, then res.status(202).json
CreateJob(r, rq) ==
  /\ turn = NoRun
  /\ run[r].kind = "none"
  /\ LET job == NewJob(uuidv4(r, 1), rq.videoUrl, rq.prompt)
     IN /\ jobs' = jobs @@ (job.id :> job)
        /\ timers' = timers \cup {[id |-> job.id, due |-> now + RetentionMs]}
        /\ born' = born @@ (job.id :> now)
        /\ resp' = [resp EXCEPT ![r] = JobCreateResponse(job)]
        /\ run' = [run EXCEPT ![r] =
                     [IdleRun EXCEPT !.kind = "job", !.pc = "launch",
                                     !.videoUrl = rq.videoUrl,
                                     !.prompt = rq.prompt, !.jobId = job.id,
                                     !.apiKey = ApiKeyOf(rq)]]
  /\ turn' = {r}
  /\ UNCHANGED <<now, files, statusResp, statusReq>>

\* a background start that downloads without marking the job first
StartBackground_m(r) ==
  /\ turn = {r}
  /\ run[r].pc = "launch"
  /\ run' = [run EXCEPT ![r] = BeginDownload(r, [run[r] EXCEPT !.startTime = now])]
  /\ turn' = NoRun
  /\ UNCHANGED <<now, jobs, timers, born, files, resp, statusResp, statusReq>>

\* processVideoInBackground up to its first await, in createJob's own turn
StartBackground(r) ==
  /\ turn = {r}
  /\ run[r].pc = "launch"
  /\ jobs' = markProcessing(run[r].jobId)
  /\ run' = [run EXCEPT ![r] = BeginDownload(r, [run[r] EXCEPT !.startTime = now])]
  /\ turn' = NoRun
  /\ UNCHANGED <<now, timers, born, files, resp, statusResp, statusReq>>

\* a synchronous request that registers a job before it starts
ProcessVideoReq_m(r, rq) ==
  /\ turn = NoRun
  /\ run[r].kind = "none"
  /\ run' = [run EXCEPT ![r] =
               BeginDownload(r, [IdleRun EXCEPT !.kind = "sync",
                                             !.videoUrl = rq.videoUrl,
                                             !.prompt = rq.prompt,
                                             !.apiKey = ApiKeyOf(rq),
                                             !.startTime = now])]
  /\ jobs' = jobs @@ (uuidv4(r, 1) :> NewJob(uuidv4(r, 1), rq.videoUrl, rq.prompt))
  /\ UNCHANGED <<now, timers, born, turn, files, resp, statusResp, statusReq>>

\* POST /api/process-video: processVideo up to its first await
ProcessVideoReq(r, rq) ==
  /\ turn = NoRun
  /\ run[r].kind = "none"
  /\ run' = [run EXCEPT ![r] =
               BeginDownload(r, [IdleRun EXCEPT !.kind = "sync",
                                             !.videoUrl = rq.videoUrl,
                                             !.prompt = rq.prompt,
                                             !.apiKey = ApiKeyOf(rq),
                                             !.startTime = now])]
  /\ UNCHANGED <<now, jobs, timers, born, turn, files, resp, statusResp, statusReq>>

\* a status read that removes a job it reports as completed or failed
GetJobStatus_m(req, jobId) ==
  /\ turn = NoRun
  /\ statusResp' = IF getJob(jobId) = NoJob THEN NotFoundResponse(jobId)
                   ELSE JobStatusResponse(getJob(jobId))
  /\ statusReq' = [apiKey |-> ApiKeyOf(req)]
  /\ jobs' = IF getJob(jobId).status \in {"completed", "failed"}
               THEN [i \in DOMAIN jobs \ {jobId} |-> jobs[i]] ELSE jobs
  /\ UNCHANGED <<now, timers, born, run, turn, files, resp>>

\* GET /api/jobs/:jobId, for a request authenticateApiKey let through
GetJobStatus(req, jobId) ==
  /\ turn = NoRun
  /\ statusResp' = IF getJob(jobId) = NoJob THEN NotFoundResponse(jobId)
                   ELSE JobStatusResponse(getJob(jobId))
  /\ statusReq' = [apiKey |-> ApiKeyOf(req)]
  /\ UNCHANGED <<now, jobs, timers, born, run, turn, files, resp>>

\* GET /api/jobs/:jobId answered by authenticateApiKey itself
RefuseJobStatus(req, jobId) ==
  /\ turn = NoRun
  /\ statusResp' = authenticateApiKey(req, ConfiguredApiKey)
  /\ statusReq' = [apiKey |-> ApiKeyOf(req)]
  /\ UNCHANGED <<now, jobs, timers, born, run, turn, files, resp>>

\* POST /api/jobs or /api/process-video answered by a middleware
Refuse(r, rq) ==
  /\ turn = NoRun
  /\ run[r].kind = "none"
  /\ resp' = [resp EXCEPT ![r] = PostMiddleware(rq)]
  /\ run' = [run EXCEPT ![r] =
               [IdleRun EXCEPT !.kind = "refused", !.pc = "done",
                               !.videoUrl = rq.videoUrl, !.prompt = rq.prompt,
                               !.apiKey = ApiKeyOf(rq)]]
  /\ UNCHANGED <<now, jobs, timers, born, turn, files, statusResp, statusReq>>

\* a purge callback that deletes nothing
PurgeTimer_m(t) ==
  /\ turn = NoRun
  /\ t \in timers
  /\ t.due <= now
  /\ timers' = timers \ {t}
  /\ UNCHANGED <<now, jobs, born, run, turn, files, resp, statusResp, statusReq>>

\* a purge callback that spares a job still in processing
PurgeTimer_m2(t) ==
  /\ turn = NoRun
  /\ t \in timers
  /\ t.due <= now
  /\ jobs' = IF getJob(t.id).status = "processing" THEN jobs
             ELSE [i \in DOMAIN jobs \ {t.id} |-> jobs[i]]
  /\ timers' = timers \ {t}
  /\ UNCHANGED <<now, born, run, turn, files, resp, statusResp, statusReq>>

\* a purge callback that clears the whole store
PurgeTimer_m3(t) ==
  /\ turn = NoRun
  /\ t \in timers
  /\ t.due <= now
  /\ jobs' = <<>>
  /\ timers' = timers \ {t}
  /\ UNCHANGED <<now, born, run, turn, files, resp, statusResp, statusReq>>

\* the setTimeout callback of createJob: this.jobs.delete(job.id)
PurgeTimer(t) ==
  /\ turn = NoRun
  /\ t \in timers
  /\ t.due <= now
  /\ jobs' = [i \in DOMAIN jobs \ {t.id} |-> jobs[i]]
  /\ timers' = timers \ {t}
  /\ UNCHANGED <<now, born, run, turn, files, resp, statusResp, statusReq>>

\* time passes; the event loop runs a due timer before the clock moves on
Min(a, b) == IF a <= b THEN a ELSE b

NextDue(limit) ==
  IF timers = {} THEN limit
           ELSE CHOOSE d \in {t.due : t \in timers} :
                  \A t \in timers : d <= t.due

Tick(limit) ==
  /\ turn = NoRun
  /\ now < limit
  /\ \A t \in timers : t.due > now
  /\ now' = Min(Min(now + TickMs, limit), NextDue(limit))
  /\ UNCHANGED <<jobs, timers, born, run, turn, files, resp, statusResp, statusReq>>

\* the clock read by Date.now() advances by one millisecond
Elapse(limit) ==
  /\ turn = NoRun
  /\ now < limit
  /\ \A t \in timers : t.due > now
  /\ now' = now + 1
  /\ UNCHANGED <<jobs, timers, born, run, turn, files, resp, statusResp, statusReq>>


\* -------------------------------------------------- downloadVideo, continued
Suspended(r, at) == turn = NoRun /\ run[r].pc = at

Frame == UNCHANGED <<now, timers, born, turn, statusResp, statusReq>>

\* axios.head resolved: contentType = headers["content-type"] || contentType
HeadReturns(r, header) ==
  /\ Suspended(r, "head")
  /\ run' = [run EXCEPT ![r].contentType = HeadContentType(header),
                        ![r].probe = "returned", ![r].headHeader = header,
                        ![r].pc = "get"]
  /\ UNCHANGED <<jobs, files, resp>>
  /\ Frame

\* axios.head rejected and the rejection reaches downloadVideo's catch block
HeadFails_m(r) ==
  /\ Suspended(r, "head")
  /\ Settle(r, cleanupFile(files, run[r].tempFilePath, TRUE), {}, NoPath,
            FALSE, ErrorMessage(NetworkError), TRUE, "fetchFailed")
  /\ Frame

\* axios.head rejected: logged, the GET follows
HeadFails(r) ==
  /\ Suspended(r, "head")
  /\ run' = [run EXCEPT ![r].probe = "failed", ![r].pc = "get"]
  /\ UNCHANGED <<jobs, files, resp>>
  /\ Frame

\* a rejected GET after which the controller goes on to the upload
GetFails_m(r, error) ==
  /\ Suspended(r, "get")
  /\ run' = [run EXCEPT ![r].uploadStart = now, ![r].analyses = @ + 1,
                        ![r].pc = "upload"]
  /\ UNCHANGED <<jobs, files, resp>>
  /\ Frame

\* the GET rejected: catch block of downloadVideo, then the caller's
GetFails(r, error) ==
  /\ Suspended(r, "get")
  /\ Settle(r, cleanupFile(files, run[r].tempFilePath, TRUE), {}, NoPath,
            FALSE, ErrorMessage(error), TRUE, "fetchFailed")
  /\ Frame

\* the GET resolved: final name chosen, write stream opened on the temp file
GetResponds(r, header) ==
  /\ Suspended(r, "get")
  /\ LET contentType == DeclaredContentType(run[r].contentType, header)
         extension == getExtensionFromMimeType(contentType)
     IN run' = [run EXCEPT ![r].contentType = contentType,
                           ![r].responseHeader = header,
                           ![r].finalFilePath =
                              [name |-> uuidv4(r, 3), ext |-> extension],
                           ![r].pc = "stream"]
  /\ files' = files \cup {run[r].tempFilePath}
  /\ UNCHANGED <<now, jobs, timers, born, turn, resp, statusResp, statusReq>>

\* writer "finish": rename, resolve; the controller goes on into
\* GeminiService.processVideo up to ai.files.upload
StreamFinish(r) ==
  /\ Suspended(r, "stream")
  /\ LET rec == run[r]
         renamed == (files \ {rec.tempFilePath}) \cup {rec.finalFilePath}
         downloadResult == [filePath |-> rec.finalFilePath,
                            mimeType |-> CleanMimeType(rec.contentType)]
         entered == [rec EXCEPT !.filePath = downloadResult.filePath,
                                !.mimeType = downloadResult.mimeType,
                                !.downloadTime = now - rec.downloadStart,
                                !.uploadStart = now,
                                !.analyses = @ + 1,
                                !.probe = "none", !.headHeader = NoHeader,
                                !.responseHeader = NoHeader]
     IN IF downloadResult.filePath \in renamed
          THEN /\ files' = renamed
               /\ run' = [run EXCEPT ![r] = [entered EXCEPT !.pc = "upload"]]
               /\ UNCHANGED <<jobs, resp>>
          ELSE \* fs.existsSync(filePath) is false: processVideo returns null
               /\ run' = [run EXCEPT ![r] =
                            [entered EXCEPT !.pc = "done", !.analyze = "null",
                                            !.effects =
                                               Effects(rec, rec.finalFilePath,
                                                       "null"),
                                            !.marked = @ \o Marked(rec, FALSE,
                                                                   NoResultMessage)]]
               /\ jobs' = IF rec.kind = "job"
                            THEN markFailed(rec.jobId, NoResultMessage) ELSE jobs
               /\ resp' = IF rec.kind = "sync"
                            THEN [resp EXCEPT ![r] = FailureResponse(NoResultMessage)]
                            ELSE resp
               /\ files' = renamed
  /\ Frame

\* writer "error" or response stream "error" whose handler only rejects
StreamError_m(r, error, unlinkOk) ==
  /\ Suspended(r, "stream")
  /\ Settle(r, files, {}, NoPath, FALSE, ErrorMessage(error), TRUE, "fetchFailed")
  /\ Frame

\* writer "error" or response stream "error": temp file removed, rejected
StreamError(r, error, unlinkOk) ==
  /\ Suspended(r, "stream")
  /\ Settle(r, cleanupFile(files, run[r].tempFilePath, unlinkOk),
            UnlinkThrew(files, run[r].tempFilePath, unlinkOk), NoPath,
            FALSE, ErrorMessage(error), TRUE, "fetchFailed")
  /\ Frame

\* -------------------------------------------------- GeminiService.processVideo
\* ai.files.upload resolved with a name: first readiness poll issued
UploadReturns(r) ==
  /\ Suspended(r, "upload")
  /\ run' = [run EXCEPT ![r].polls = @ + 1, ![r].pc = "poll"]
  /\ UNCHANGED <<jobs, files, resp>>
  /\ Frame

\* ai.files.upload resolved without a name
UploadReturnsNoName(r, unlinkOk) ==
  /\ Suspended(r, "upload")
  /\ Settle(r, files, {}, run[r].filePath, FALSE, NoNameMessage, unlinkOk, "threw")
  /\ Frame

UploadFails(r, error, unlinkOk) ==
  /\ Suspended(r, "upload")
  /\ Settle(r, files, {}, run[r].filePath, FALSE, ErrorMessage(error), unlinkOk,
            "threw")
  /\ Frame

\* ai.files.get resolved, where the last attempt of the budget is counted
\* before the state is looked at: ACTIVE on the 60th poll is not acted on
PollReturns_m(r, state) ==
  /\ Suspended(r, "poll")
  /\ run' = IF state = "ACTIVE" /\ run[r].attempts + 1 < maxAttempts
              THEN [run EXCEPT ![r].fileReady = TRUE,
                               ![r].readyAt = run[r].polls,
                               ![r].generated = TRUE,
                               ![r].pc = "generate"]
              ELSE [run EXCEPT ![r].attempts = @ + 1,
                               ![r].waited = @ + PollDelayMs,
                               ![r].readyAt =
                                  IF state = "ACTIVE" THEN run[r].polls ELSE @,
                               ![r].pc = "delay"]
  /\ UNCHANGED <<jobs, files, resp>>
  /\ Frame

\* ai.files.get resolved, where a FAILED file ends the wait at once
PollReturns_m2(r, state) ==
  /\ Suspended(r, "poll")
  /\ IF state = "FAILED"
       THEN Settle(r, files, {}, run[r].filePath, FALSE,
                   "Video file processing failed", TRUE, "threw")
       ELSE /\ run' = IF state = "ACTIVE"
                        THEN [run EXCEPT ![r].fileReady = TRUE,
                                         ![r].readyAt = run[r].polls,
                                         ![r].generated = TRUE,
                                         ![r].pc = "generate"]
                        ELSE [run EXCEPT ![r].attempts = @ + 1,
                                         ![r].waited = @ + PollDelayMs,
                                         ![r].pc = "delay"]
            /\ UNCHANGED <<jobs, files, resp>>
  /\ Frame

\* ai.files.get resolved
PollReturns(r, state) ==
  /\ Suspended(r, "poll")
  /\ run' = IF state = "ACTIVE"
              THEN [run EXCEPT ![r].fileReady = TRUE,
                               ![r].readyAt = run[r].polls,
                               ![r].generated = TRUE,
                               ![r].pc = "generate"]
              ELSE [run EXCEPT ![r].attempts = @ + 1,
                               ![r].waited = @ + PollDelayMs,
                               ![r].pc = "delay"]
  /\ UNCHANGED <<jobs, files, resp>>
  /\ Frame

\* a rejected ai.files.get that is treated as "not ready yet": the loop
\* waits and polls again
PollFails_m(r, error, unlinkOk) ==
  /\ Suspended(r, "poll")
  /\ run' = [run EXCEPT ![r].attempts = @ + 1,
                        ![r].waited = @ + PollDelayMs,
                        ![r].analyze = "pollThrew",
                        ![r].pc = "delay"]
  /\ UNCHANGED <<jobs, files, resp>>
  /\ Frame

\* ai.files.get rejected: the catch block of processVideo rethrows
PollFails(r, error, unlinkOk) ==
  /\ Suspended(r, "poll")
  /\ Settle(r, files, {}, run[r].filePath, FALSE, ErrorMessage(error), unlinkOk,
            "pollThrew")
  /\ Frame

\* while (!fileReady && attempts < maxAttempts), with an off-by-one
LoopCondition_m(rec) == ~ rec.fileReady /\ rec.attempts <= maxAttempts

\* while (!fileReady && attempts < maxAttempts)
LoopCondition(rec) == ~ rec.fileReady /\ rec.attempts < maxAttempts

\* the 10 s delay is over and the loop condition holds: next poll
DelayElapsed(r) ==
  /\ Suspended(r, "delay")
  /\ LoopCondition(run[r])
  /\ run' = [run EXCEPT ![r].polls = @ + 1, ![r].pc = "poll"]
  /\ UNCHANGED <<jobs, files, resp>>
  /\ Frame

\* the 10 s delay is over and the loop condition fails: timeout error
PollTimeout(r, unlinkOk) ==
  /\ Suspended(r, "delay")
  /\ ~ LoopCondition(run[r])
  /\ Settle(r, files, {}, run[r].filePath, FALSE, TimeoutMessage, unlinkOk,
            "timeout")
  /\ Frame

\* generateContent resolved, where response.text is passed on as it is and
\* the controller does not test it
GenerateReturns_m(r, text, unlinkOk) ==
  /\ Suspended(r, "generate")
  /\ Settle(r, files, {}, run[r].filePath, TRUE, text, unlinkOk,
            IF text # "" THEN "text" ELSE "null")
  /\ Frame

\* ai.models.generateContent resolved: response.text || null
GenerateReturns(r, text, unlinkOk) ==
  /\ Suspended(r, "generate")
  /\ IF text # ""
       THEN Settle(r, files, {}, run[r].filePath, TRUE, text, unlinkOk, "text")
       ELSE Settle(r, files, {}, run[r].filePath, FALSE, NoResultMessage, unlinkOk,
                   "null")
  /\ Frame

GenerateFails(r, error, unlinkOk) ==
  /\ Suspended(r, "generate")
  /\ Settle(r, files, {}, run[r].filePath, FALSE, ErrorMessage(error), unlinkOk,
            "threw")
  /\ Frame


\* ------------------------------------------------------------ specifications
\* ids a client asks for: the ids createJob gave out, and one never given out
AskedIds == {0} \cup {resp[r].jobId : r \in {q \in Runs : resp[q].code = 202}}

\* the keys a client sends with a status read
GoodKey == [header |-> ConfiguredApiKey, query |-> NoKey]
ReadKeys == BadKeys \cup {GoodKey}

\* Content-Type headers
WebmWithCodecs == <<"video/webm", ";", " ", "codecs=vp9">>
PaddedMp4 == <<" ", "VIDEO/MP4", " ">>
Headers == {NoHeader, OctetStream, WebmWithCodecs, PaddedMp4}

\* a request arrives at one of the two POST routes and both middlewares
\* call next()
Accept(r, requests) ==
  \/ \E rq \in requests : PostMiddleware(rq) = NoResp /\ CreateJob(r, rq)
  \/ \E rq \in requests : PostMiddleware(rq) = NoResp /\ ProcessVideoReq(r, rq)

\* the start of the background task and downloadVideo
Download(r, headHeaders, getHeaders) ==
  \/ StartBackground(r)
  \/ \E h \in headHeaders : HeadReturns(r, h)
  \/ HeadFails(r)
  \/ \E e \in Thrown : GetFails(r, e)
  \/ \E h \in getHeaders : GetResponds(r, h)
  \/ StreamFinish(r)
  \/ \E e \in Thrown, u \in BOOLEAN : StreamError(r, e, u)

\* app.get("/api/jobs/:jobId", authenticateApiKey, handler), where
\* authenticateApiKey calls next()
JobStatus(keys, jobId) ==
  \E req \in keys :
    /\ authenticateApiKey(req, ConfiguredApiKey) = NoResp
    /\ GetJobStatus(req, jobId)

\* the same route, where authenticateApiKey answers
JobStatusRefused(keys, jobId) ==
  \E req \in keys :
    /\ authenticateApiKey(req, ConfiguredApiKey) # NoResp
    /\ RefuseJobStatus(req, jobId)

\* a POST request that a middleware answers
Refused(r, requests) ==
  \E rq \in requests : PostMiddleware(rq) # NoResp /\ Refuse(r, rq)

\* the request handlers and downloadVideo
Fetch(r, requests, headHeaders, getHeaders) ==
  \/ Accept(r, requests)
  \/ Download(r, headHeaders, getHeaders)

\* GeminiService.processVideo, where the file service answers "not ready"
\* at most maxNotReady times per upload
Analyze(r, maxNotReady) ==
  \/ UploadReturns(r)
  \/ \E u \in BOOLEAN : UploadReturnsNoName(r, u)
  \/ \E e \in Thrown, u \in BOOLEAN : UploadFails(r, e, u)
  \/ \E st \in FileStates :
       /\ st # "ACTIVE" => run[r].attempts < maxNotReady
       /\ PollReturns(r, st)
  \/ \E e \in Thrown, u \in BOOLEAN : PollFails(r, e, u)
  \/ DelayElapsed(r)
  \/ \E t \in Texts, u \in BOOLEAN : GenerateReturns(r, t, u)
  \/ \E e \in Thrown, u \in BOOLEAN : GenerateFails(r, e, u)

\* Spec: MaxRuns concurrent requests (background jobs and synchronous runs),
\* the store, its purge timers and the clock; the servers send one
\* Content-Type and an upload becomes ACTIVE after at most MaxNotReady polls.
\* Status reads, which write nothing, are left to SpecSolo.
Next ==
  \/ \E r \in Runs : Fetch(r, Requests, {OctetStream}, {WebmWithCodecs})
  \/ \E r \in Runs : Analyze(r, MaxNotReady)
  \/ \E t \in timers : PurgeTimer(t)
  \/ Tick(MaxTime)

Spec == Init /\ [][Next]_vars

\* SpecSolo: one request against an unrestricted environment: every header,
\* every URL, a file service that may never report ACTIVE, and a client
\* that reads the job status at any time.
NextSolo ==
  \/ Fetch(1, AllRequests, Headers, Headers)
  \/ Analyze(1, maxAttempts)
  \/ \E u \in BOOLEAN : PollTimeout(1, u)
  \/ \E id \in AskedIds : JobStatus({GoodKey}, id)
  \/ \E t \in timers : PurgeTimer(t)
  \/ Tick(MaxTimeSolo)

SpecSolo == Init /\ [][NextSolo]_vars

\* SpecGate: one request and the status reads of clients that send a right
\* key, a wrong key or none, and a valid or an invalid body.
NextGate ==
  \/ Fetch(1, AllRequests \cup BadRequests, {OctetStream}, {WebmWithCodecs})
  \/ Refused(1, AllRequests \cup BadRequests)
  \/ Analyze(1, MaxNotReady)
  \/ \E id \in AskedIds : JobStatus(ReadKeys, id)
  \/ \E id \in AskedIds : JobStatusRefused(ReadKeys, id)
  \/ \E t \in timers : PurgeTimer(t)
  \/ Tick(MaxTimeSolo)

SpecGate == Init /\ [][NextGate]_vars

\* SpecLive: one request whose external calls (probe, retrieval, upload,
\* each status poll, generation) all eventually return or fail: a run that
\* awaits one of them is eventually resumed. Requests, the clock and the
\* purge timers are under no such obligation.
NextLive ==
  \/ Fetch(1, Requests, {OctetStream}, {WebmWithCodecs})
  \/ Analyze(1, maxAttempts)
  \/ \E u \in BOOLEAN : PollTimeout(1, u)
  \/ \E t \in timers : PurgeTimer(t)
  \/ Tick(MaxTimeSolo)

Resumed(r) ==
  \/ Download(r, {OctetStream}, {WebmWithCodecs})
  \/ Analyze(r, maxAttempts)
  \/ \E u \in BOOLEAN : PollTimeout(r, u)

SpecLive == Init /\ [][NextLive]_vars /\ WF_vars(Resumed(1))

\* SpecFetch: one request whose probe and retrieval are answered with any of
\* a wider set of Content-Type headers (mixed case, parameters, a type the
\* table does not know) or with none; the clock stands still.
MixedCaseWebm == <<"Video/WebM">>
HtmlWithCharset == <<"text/html", ";", " ", "charset=utf-8">>
Quicktime == <<"video/quicktime">>
FetchHeaders == Headers \cup {MixedCaseWebm, HtmlWithCharset, Quicktime}

NextFetch ==
  \/ Fetch(1, AllRequests, FetchHeaders, FetchHeaders)
  \/ Analyze(1, MaxNotReady)

SpecFetch == Init /\ [][NextFetch]_vars

\* SpecPair: MaxRuns concurrent requests (background jobs and synchronous
\* runs) and a client that reads the status of any job at any time; the
\* clock stands still, so that no purge timer comes due.
NextPair ==
  \/ \E r \in Runs : Fetch(r, Requests, {OctetStream}, {WebmWithCodecs})
  \/ \E r \in Runs : Analyze(r, MaxNotReady)
  \/ \E id \in AskedIds : JobStatus({GoodKey}, id)

SpecPair == Init /\ [][NextPair]_vars

\* SpecClock: one request, with a clock that advances millisecond by
\* millisecond, up to MaxClockMs, between any two steps of the run.
NextClock ==
  \/ Fetch(1, Requests, {OctetStream}, {WebmWithCodecs})
  \/ Analyze(1, MaxNotReady)
  \/ Elapse(MaxClockMs)

SpecClock == Init /\ [][NextClock]_vars

\* SpecStuck: one request whose uploaded file never becomes ACTIVE: the
\* file service answers every poll with another state (PROCESSING, or the
\* terminal FAILED), or the poll throws.
AnalyzeStuck(r) ==
  \/ UploadReturns(r)
  \/ \E u \in BOOLEAN : UploadReturnsNoName(r, u)
  \/ \E e \in Thrown, u \in BOOLEAN : UploadFails(r, e, u)
  \/ \E st \in FileStates \ {"ACTIVE"} : PollReturns(r, st)
  \/ \E e \in Thrown, u \in BOOLEAN : PollFails(r, e, u)
  \/ DelayElapsed(r)
  \/ \E u \in BOOLEAN : PollTimeout(r, u)

NextStuck ==
  \/ Fetch(1, Requests, {OctetStream}, {WebmWithCodecs})
  \/ AnalyzeStuck(1)

SpecStuck == Init /\ [][NextStuck]_vars


\* ------------------------------------------------------------------- claims
JobRuns == {r \in Runs : run[r].kind = "job"}
SyncRuns == {r \in Runs : run[r].kind = "sync"}
JobIds == {uuidv4(r, 1) : r \in Runs}
StatusOf(id) == getJob(id).status

\* C1: the status stored under a job id changes only along
\* pending -> processing -> completed or pending -> processing -> failed;
\* a record appears as pending, once, and disappears only by its purge;
\* no job re-enters processing and a terminal status never changes.
C1_StatusTransitions ==
  [][\A id \in JobIds :
       LET a == StatusOf(id)
           b == StatusOf(id)'
       IN \/ a = b
          \/ a = "absent" /\ b = "pending" /\ id \notin DOMAIN born
          \/ a = "pending" /\ b = "processing"
          \/ a = "processing" /\ b \in {"completed", "failed"}
          \/ b = "absent"]_vars

C1_Witness ==
  \E i, j \in DOMAIN jobs :
    jobs[i].status = "completed" /\ jobs[j].status = "failed"

\* C2: a completed job has result set and error unset, a failed job has
\* error set and result unset, a pending or processing job has neither.
C2_ResultXorError ==
  \A id \in DOMAIN jobs :
    LET job == jobs[id]
    IN /\ job.status = "completed" =>
            job.result # Undefined /\ job.error = Undefined
       /\ job.status = "failed" =>
            job.error # Undefined /\ job.result = Undefined
       /\ job.status \in {"pending", "processing"} =>
            job.result = Undefined /\ job.error = Undefined

C2_Witness ==
  \E i, j \in DOMAIN jobs :
    /\ jobs[i].status = "completed" /\ jobs[i].result = "a summary"
    /\ jobs[j].status = "failed" /\ jobs[j].error = NoResultMessage


\* C3: after 60 polls that did not report ACTIVE, each followed by a 10 s
\* delay, processVideo makes no further poll and requests no generation: it
\* throws the timeout error, and the run ends failed with that message (a job
\* still in the store is failed with the timeout text, never completed).
C3_PollTimeout ==
  \A r \in Runs :
    LET rec == run[r]
    IN /\ rec.polls <= maxAttempts
       /\ rec.attempts = maxAttempts =>
            /\ ~ rec.generated
            /\ rec.pc \in {"delay", "done"}
            /\ rec.pc = "done" => rec.analyze = "timeout"
       /\ rec.analyze = "timeout" =>
            /\ rec.polls = maxAttempts /\ rec.attempts = maxAttempts
            /\ rec.waited = maxAttempts * PollDelayMs
            /\ ~ rec.generated
            /\ rec.kind = "job" /\ rec.jobId \in DOMAIN jobs =>
                 /\ jobs[rec.jobId].status = "failed"
                 /\ jobs[rec.jobId].error = TimeoutMessage
            /\ rec.kind = "sync" => resp[r] = FailureResponse(TimeoutMessage)

C3_Witness ==
  \E r \in JobRuns :
    /\ run[r].analyze = "timeout"
    /\ run[r].jobId \in DOMAIN jobs
    /\ jobs[run[r].jobId].status = "failed"

\* C4 as claimed: the file downloadVideo returned no longer exists once the
\* run has finished.
C4_FileGoneAfterRun ==
  \A r \in Runs :
    run[r].pc = "done" /\ run[r].filePath # NoPath =>
      run[r].filePath \notin files

\* C4, amended: once the run has finished, the file downloadVideo returned no
\* longer exists unless its deletion itself failed (which is only logged),
\* whatever analyze did.
C4_FileGoneUnlessUnlinkFailed ==
  \A r \in Runs :
    run[r].pc = "done" /\ run[r].filePath # NoPath =>
      \/ run[r].filePath \notin files
      \/ run[r].filePath \in run[r].unlinkFailed

C4_Witness ==
  \E r \in SyncRuns :
    /\ run[r].pc = "done" /\ run[r].analyze = "timeout"
    /\ run[r].filePath # NoPath /\ run[r].filePath \notin files

\* C5: getJobStatus for a job id whose 1-hour retention window has elapsed,
\* or for an id that was never created, answers 404 "Job not found"; and no
\* record outlives its window, whether or not it was ever read.
C5_NotFoundAfterRetention ==
  /\ [](\A id \in DOMAIN born :
          now > born[id] + RetentionMs => getJob(id) = NoJob)
  /\ [][statusResp' # statusResp /\ statusResp'.code \in {200, 404} =>
          LET id == statusResp'.jobId
          IN (id \notin DOMAIN born \/ now > born[id] + RetentionMs) =>
               statusResp' = NotFoundResponse(id)]_vars

C5_Witness ==
  /\ statusResp.code = 404
  /\ statusResp.jobId \in DOMAIN born
  /\ now > born[statusResp.jobId] + RetentionMs

\* C6: once a pipeline has begun its download (or any later step), the status
\* of its job is no longer pending.
C6_ProcessingBeforeWork ==
  \A r \in JobRuns :
    run[r].pc \notin {"idle", "launch"} => StatusOf(run[r].jobId) # "pending"

C6_Witness ==
  \E r \in JobRuns : run[r].pc = "head" /\ StatusOf(run[r].jobId) = "processing"

\* C7: the response to POST /api/jobs is 202 with the new id and status
\* pending; it is sent before the pipeline takes any step and no later step
\* of the pipeline changes or replaces it.
C7_CreateAnswersPending ==
  /\ [](\A r \in JobRuns :
          resp[r] = [code |-> 202, success |-> TRUE, jobId |-> run[r].jobId,
                     status |-> "pending"])
  /\ [][\A r \in Runs : resp[r].code = 202 => resp'[r] = resp[r]]_vars

C7_Witness ==
  \E r \in JobRuns :
    /\ run[r].pc = "done" /\ run[r].analyze = "fetchFailed"
    /\ StatusOf(run[r].jobId) = "failed"
    /\ resp[r].code = 202 /\ resp[r].status = "pending"

\* C8: jobs of different requests have different ids, and the record of a job
\* changes only in a step of its own pipeline or by its own purge timer.
C8_JobsIndependent ==
  /\ [](\A p, q \in JobRuns : p # q => run[p].jobId # run[q].jobId)
  /\ [][\A r \in JobRuns :
          LET id == run[r].jobId
          IN getJob(id)' # getJob(id) =>
               \/ run'[r] # run[r]
               \/ \E t \in timers \ timers' : t.id = id]_vars

C8_Witness ==
  \E p, q \in JobRuns :
    /\ run[p].videoUrl # run[q].videoUrl
    /\ StatusOf(run[p].jobId) = "completed"
    /\ StatusOf(run[q].jobId) = "processing"

\* the URL contains / ends with the given tokens
UrlContains(url, token) == \E i \in DOMAIN url : url[i] = token
UrlEndsWith(url, suffix) ==
  Len(url) >= Len(suffix) /\
  SubSeq(url, Len(url) - Len(suffix) + 1, Len(url)) = suffix

VideoTypes == DOMAIN videoMimeTypes \ {OctetStream}

\* C9: a download whose declared content type is application/octet-stream
\* and whose URL contains tiktokcdn.com returns a concrete video type.
C9_TikTokTypeCorrected ==
  \A r \in Runs :
    /\ run[r].filePath # NoPath
    /\ run[r].contentType = OctetStream
    /\ UrlContains(run[r].videoUrl, "tiktokcdn.com")
    => run[r].mimeType \in VideoTypes

\* C10: a download whose declared content type is application/octet-stream
\* and whose URL ends in clip.webm returns video/webm.
C10_WebmTypeCorrected ==
  \A r \in Runs :
    /\ run[r].filePath # NoPath
    /\ run[r].contentType = OctetStream
    /\ UrlEndsWith(run[r].videoUrl, <<"clip", ".webm">>)
    => run[r].mimeType = <<"video/webm">>

\* the messages with which a run that ended with the given outcome fails
ThrownMessages == {ErrorMessage(e) : e \in Thrown}
FailureMessages(tag) ==
  CASE tag = "fetchFailed" -> ThrownMessages
    [] tag = "threw" -> ThrownMessages \cup {NoNameMessage}
    [] tag = "pollThrew" -> ThrownMessages
    [] tag = "timeout" -> {TimeoutMessage}
    [] tag = "null" -> {NoResultMessage}
    [] OTHER -> {}

\* C11: a background pipeline invokes downloadVideo at most once and
\* GeminiService.processVideo at most once; when either fails, the pipeline
\* ends with the single call markFailed(jobId, message of the error), no
\* markCompleted, and the job, if its record is still in the store, is failed
\* with that message as its error.
C11_FailureIsFinal ==
  \A r \in JobRuns :
    LET rec == run[r]
    IN /\ rec.downloads <= 1 /\ rec.analyses <= 1
       /\ rec.pc # "done" => rec.marked = <<>>
       /\ rec.pc = "done" /\ rec.analyze # "text" =>
            /\ Len(rec.marked) = 1
            /\ rec.marked[1].op = "markFailed"
            /\ rec.marked[1].value \in FailureMessages(rec.analyze)
            /\ rec.analyze = "fetchFailed" => rec.analyses = 0
            /\ rec.jobId \in DOMAIN jobs =>
                 /\ jobs[rec.jobId].status = "failed"
                 /\ jobs[rec.jobId].error = rec.marked[1].value

C11_Witness ==
  \E r \in JobRuns :
    /\ run[r].pc = "done" /\ run[r].analyze = "threw"
    /\ run[r].downloads = 1 /\ run[r].analyses = 1
    /\ StatusOf(run[r].jobId) = "failed"
    /\ jobs[run[r].jobId].error = NetworkError.message

\* the pipelines whose job was purged while they were in flight
PurgedInFlight ==
  {r \in JobRuns : run[r].pc # "done" /\ run[r].jobId \in DOMAIN born
                   /\ getJob(run[r].jobId) = NoJob}

\* the pipelines whose terminal call found no record
MarkedAbsent ==
  {r \in JobRuns : run[r].marked # <<>> /\ ~ run[r].marked[1].found}

\* C12 as claimed: a terminal call on a purged id inserts nothing and the
\* pipeline ends; the file it downloaded no longer exists then.
C12_PurgedRunDeletesFile ==
  \A r \in MarkedAbsent :
    /\ run[r].pc = "done"
    /\ run[r].filePath # NoPath => run[r].filePath \notin files

\* C12, amended: an id that left the store never reappears in it; a terminal
\* call (markCompleted, markFailed) that finds no record inserts none and the
\* pipeline ends normally; its file no longer exists then unless the deletion
\* itself failed; and a pipeline whose job was purged while it was in flight
\* eventually reaches its end.
C12_AbsentIdTolerated ==
  /\ [][\A id \in DOMAIN born : getJob(id) = NoJob => getJob(id)' = NoJob]_vars
  /\ [](\A r \in MarkedAbsent :
          /\ run[r].pc = "done"
          /\ getJob(run[r].jobId) = NoJob
          /\ run[r].filePath # NoPath =>
               \/ run[r].filePath \notin files
               \/ run[r].filePath \in run[r].unlinkFailed)
  /\ \A r \in Runs : (r \in PurgedInFlight) ~> (run[r].pc = "done")

C12_Witness ==
  \E r \in MarkedAbsent :
    /\ run[r].pc = "done" /\ run[r].marked[1].op = "markCompleted"
    /\ run[r].jobId \in DOMAIN born /\ getJob(run[r].jobId) = NoJob
    /\ run[r].filePath # NoPath /\ run[r].filePath \notin files

\* the purge createJob scheduled for the job created under id
PurgeOf(id) == [id |-> id, due |-> born[id] + RetentionMs]

\* C13: createJob schedules one purge, due 1 hour after the creation; the
\* record is in the store exactly as long as that purge is pending, whatever
\* its status; the only steps that change the pending purges are createJob,
\* which adds the purge of a new id, and the purge itself, which fires at its
\* due time and removes the record: no update, status transition or read
\* adds, moves or removes one.
C13_PurgeFixedAtCreation ==
  /\ [](\A id \in DOMAIN born :
          /\ {t \in timers : t.id = id} \subseteq {PurgeOf(id)}
          /\ getJob(id) # NoJob <=> PurgeOf(id) \in timers
          /\ PurgeOf(id) \in timers <=> now < born[id] + RetentionMs
                                        \/ (now = born[id] + RetentionMs
                                            /\ getJob(id) # NoJob))
  /\ [][/\ \A t \in timers' \ timers :
             /\ t.id \notin DOMAIN born
             /\ t = [id |-> t.id, due |-> now + RetentionMs]
             /\ StatusOf(t.id)' = "pending"
        /\ \A t \in timers \ timers' :
             /\ t.due = now
             /\ getJob(t.id)' = NoJob]_vars

C13_Witness ==
  \E r \in JobRuns :
    /\ run[r].pc \notin {"launch", "done"}
    /\ run[r].jobId \in DOMAIN born
    /\ now = born[run[r].jobId] + RetentionMs
    /\ getJob(run[r].jobId) = NoJob
    /\ statusResp.code = 200 /\ statusResp.jobId = run[r].jobId
    /\ statusResp.status = "processing"

\* C14: every background pipeline that has started eventually ends, having
\* made exactly one terminal call (markCompleted or markFailed) and none
\* before its end; a job still in the store is then completed or failed,
\* as that call says, and never left in processing.
C14_PipelineTerminates ==
  /\ \A r \in Runs :
       (run[r].kind = "job") ~> (run[r].pc = "done" /\ Len(run[r].marked) = 1)
  /\ [](\A r \in JobRuns :
          /\ Len(run[r].marked) = IF run[r].pc = "done" THEN 1 ELSE 0
          /\ run[r].pc = "done" /\ getJob(run[r].jobId) # NoJob =>
               StatusOf(run[r].jobId) =
                 IF run[r].marked[1].op = "markCompleted" THEN "completed"
                                                          ELSE "failed")

C14_Witness ==
  \E r \in JobRuns :
    /\ run[r].pc = "done" /\ run[r].analyze = "timeout"
    /\ run[r].marked[1].op = "markFailed" /\ run[r].marked[1].found
    /\ StatusOf(run[r].jobId) = "failed"

\* the outcomes of a GeminiService.processVideo call that returned or threw
AnalyzeEnded == {"text", "null", "threw", "pollThrew", "timeout"}

\* C15, the order of fetch and analyze: processVideo is entered only with the
\* file a successful downloadVideo returned, the upload, polls and generation
\* happen only inside it, and a failed fetch is followed by none of them.
FetchThenAnalyze(rec) ==
  /\ rec.analyses = 1 => rec.downloads = 1 /\ rec.filePath # NoPath
  /\ rec.pc \in {"upload", "poll", "delay", "generate"} =>
       rec.analyses = 1 /\ rec.filePath \in files
  /\ rec.polls > 0 \/ rec.generated => rec.analyses = 1
  /\ rec.analyze = "fetchFailed" =>
       /\ rec.analyses = 0 /\ rec.polls = 0 /\ ~ rec.generated
       /\ rec.filePath = NoPath
  /\ rec.analyze \in AnalyzeEnded => rec.analyses = 1

\* C15 as claimed: the steps are in that order, and a terminal call is made
\* only after analyze has returned or thrown.
C15_MarkedAfterAnalyze ==
  \A r \in JobRuns :
    /\ FetchThenAnalyze(run[r])
    /\ run[r].marked # <<>> =>
         run[r].pc = "done" /\ run[r].analyze \in AnalyzeEnded

\* C15, amended: the steps are in that order; markCompleted is called only
\* after analyze has returned a text, and markFailed only after analyze has
\* returned nothing or thrown or, analyze never having started, after fetch
\* has failed.
C15_StepsSequential ==
  \A r \in JobRuns :
    /\ FetchThenAnalyze(run[r])
    /\ run[r].marked # <<>> =>
         /\ run[r].pc = "done"
         /\ IF run[r].marked[1].op = "markCompleted"
              THEN run[r].analyze = "text"
              ELSE run[r].analyze \in (AnalyzeEnded \ {"text"}) \cup {"fetchFailed"}

C15_Witness ==
  \E r \in JobRuns :
    /\ run[r].pc = "done" /\ run[r].analyze = "fetchFailed"
    /\ run[r].downloads = 1 /\ run[r].analyses = 0
    /\ run[r].marked[1].op = "markFailed"
    /\ StatusOf(run[r].jobId) = "failed"

\* C16: a synchronous run goes through the same fetch and analyze steps, in
\* the same order, and answers its caller itself, 200 with the result or 500
\* with the failure's message, once, at its end; no step of a synchronous run
\* changes the job store or its purge timers, and the run makes no JobService
\* call and has no job id.
C16_SyncLeavesStore ==
  /\ [][\A r \in Runs :
          run'[r].kind = "sync" /\ run'[r] # run[r] =>
            jobs' = jobs /\ timers' = timers /\ born' = born]_vars
  /\ [](\A r \in SyncRuns :
          LET rec == run[r]
          IN /\ FetchThenAnalyze(rec)
             /\ rec.downloads = 1 /\ rec.analyses <= 1
             /\ rec.marked = <<>> /\ rec.jobId \notin DOMAIN born
             /\ rec.pc # "done" => resp[r] = NoResp
             /\ rec.pc = "done" =>
                  IF rec.analyze = "text"
                    THEN /\ resp[r].code = 200
                         /\ resp[r].result \in Texts \ {""}
                    ELSE \E m \in FailureMessages(rec.analyze) :
                           resp[r] = FailureResponse(m))

C16_Witness ==
  \E r \in SyncRuns, q \in JobRuns :
    /\ run[r].pc = "done" /\ resp[r].code = 200
    /\ run[q].pc = "generate" /\ StatusOf(run[q].jobId) = "processing"

\* C17: a step that answers a status read changes only the response of that
\* read: the store, the purge timers, every run's position and locals, the
\* files, the clock and the responses of the POST requests stay as they are,
\* so what the pipelines do afterwards is what they would have done without
\* the read.
C17_ReadsChangeNothing ==
  [][statusResp' # statusResp \/ statusReq' # statusReq =>
       UNCHANGED <<now, jobs, timers, born, run, turn, files, resp>>]_vars

C17_Witness ==
  /\ statusResp.code = 200 /\ statusResp.status = "processing"
  /\ StatusOf(statusResp.jobId) = "completed"
  /\ jobs[statusResp.jobId].updatedAt > statusResp.updatedAt

\* the values a run that ended with the given outcome reports: the text of
\* the analysis, or the message of the failure
OutcomeValues(tag) ==
  IF tag = "text" THEN Texts \ {""} ELSE FailureMessages(tag)

\* C18: a run in which a deletion of a temporary file failed still ends
\* normally (nothing is thrown out of cleanupFile), and what it reports is
\* the outcome of fetch and analyze alone: a job is completed with the text
\* or failed with the message of the fetch or analyze failure, and a
\* synchronous run answers 200 with the text or 500 with that message; once
\* recorded, the outcome is changed by no later step (a record only leaves
\* the store by its purge).
C18_CleanupFailureLoggedOnly ==
  /\ [](\A r \in Runs :
          LET rec == run[r]
          IN rec.unlinkFailed # {} =>
               /\ rec.pc = "done"
               /\ rec.unlinkFailed \subseteq files
               /\ rec.kind = "job" =>
                    /\ \E v \in OutcomeValues(rec.analyze) :
                         /\ rec.marked[1].value = v
                         /\ rec.marked[1].op =
                              IF rec.analyze = "text" THEN "markCompleted"
                                                      ELSE "markFailed"
                    /\ getJob(rec.jobId) # NoJob /\ rec.marked[1].found =>
                         LET job == jobs[rec.jobId]
                         IN IF rec.analyze = "text"
                              THEN /\ job.status = "completed"
                                   /\ job.result = rec.marked[1].value
                                   /\ job.error = Undefined
                              ELSE /\ job.status = "failed"
                                   /\ job.error = rec.marked[1].value
                                   /\ job.result = Undefined
               /\ rec.kind = "sync" =>
                    \E v \in OutcomeValues(rec.analyze) :
                      IF rec.analyze = "text"
                        THEN resp[r].code = 200 /\ resp[r].result = v
                        ELSE resp[r] = FailureResponse(v))
  /\ [][\A r \in Runs :
          run[r].pc = "done" =>
            /\ resp'[r] = resp[r]
            /\ run[r].kind = "job" =>
                 getJob(run[r].jobId)' \in {getJob(run[r].jobId), NoJob}]_vars

C18_Witness ==
  \E r \in JobRuns :
    /\ run[r].pc = "done" /\ run[r].analyze = "text"
    /\ run[r].filePath \in run[r].unlinkFailed /\ run[r].filePath \in files
    /\ StatusOf(run[r].jobId) = "completed"
    /\ jobs[run[r].jobId].result = "a summary"

\* C19: the processingTime of a stored job is set only if its status is
\* completed: a pending, processing or failed job has none (and a completed
\* job has the four durations download, upload, processing, total).
C19_TimingOnlyWhenCompleted ==
  \A id \in DOMAIN jobs :
    /\ jobs[id].processingTime # NoTiming => jobs[id].status = "completed"
    /\ jobs[id].status = "completed" => Len(jobs[id].processingTime) = 4

C19_Witness ==
  \E r \in JobRuns :
    /\ StatusOf(run[r].jobId) = "completed"
    /\ jobs[run[r].jobId].processingTime = <<0, RetentionMs \div 5,
                                           RetentionMs - RetentionMs \div 5,
                                           RetentionMs>>

C21_PollFailureEnds ==
  /\ [](\A r \in Runs :
          LET rec == run[r]
          IN rec.analyze = "pollThrew" =>
               /\ rec.pc = "done" /\ rec.polls >= 1
               /\ ~ rec.generated /\ ~ rec.fileReady /\ rec.readyAt = 0
               /\ rec.kind = "job" =>
                    /\ Len(rec.marked) = 1
                    /\ rec.marked[1].op = "markFailed"
                    /\ rec.marked[1].value \in ThrownMessages
                    /\ rec.jobId \in DOMAIN jobs =>
                         /\ jobs[rec.jobId].status = "failed"
                         /\ jobs[rec.jobId].error = rec.marked[1].value
               /\ rec.kind = "sync" =>
                    \E m \in ThrownMessages : resp[r] = FailureResponse(m))
  /\ [][\A r \in Runs :
          run[r].analyze = "pollThrew" =>
            /\ run'[r].polls = run[r].polls
            /\ run'[r].generated = run[r].generated
            /\ run'[r].pc = "done"]_vars

C21_Witness ==
  \E r \in JobRuns :
    /\ run[r].analyze = "pollThrew" /\ run[r].polls = 2
    /\ ~ run[r].generated
    /\ run[r].jobId \in DOMAIN jobs
    /\ jobs[run[r].jobId].status = "failed"
    /\ jobs[run[r].jobId].error = ErrorMessage(NetworkError)

\* C22: in every invocation of GeminiService.processVideo, generation is
\* requested only after a poll observed ACTIVE, at most maxAttempts (60)
\* polls are made, and ACTIVE observed on the k-th poll, for every k from 1
\* to 60, is followed at once by the generation request and never by the
\* timeout error.
C22_ReadyThenGenerate ==
  /\ [](\A r \in Runs :
          LET rec == run[r]
          IN /\ rec.polls <= maxAttempts
             /\ rec.generated => rec.readyAt >= 1 /\ rec.fileReady
             /\ rec.readyAt >= 1 =>
                  /\ rec.readyAt = rec.polls
                  /\ rec.generated
                  /\ rec.pc \in {"generate", "done"}
                  /\ rec.analyze \in {"none", "text", "null", "threw"})
  /\ [][\A r \in Runs :
          /\ run[r].readyAt = 0 /\ run'[r].readyAt >= 1 =>
               /\ run[r].pc = "poll" /\ run'[r].pc = "generate"
               /\ run'[r].readyAt \in 1..maxAttempts
          /\ run[r].pc = "generate" => run'[r].polls = run[r].polls]_vars

C22_Witness ==
  \E r \in Runs :
    /\ run[r].readyAt = maxAttempts /\ run[r].attempts = maxAttempts - 1
    /\ run[r].pc = "done" /\ run[r].analyze = "text"

\* C23: when GeminiService.processVideo yields no text (response.text absent
\* or empty, returned as null), the run ends as a failure: its terminal call is
\* markFailed with the reason "Failed to process video with Gemini", never
\* markCompleted; the job, if its record is in the store, is failed with that
\* reason and no result; a synchronous run answers 500 with that message.
\* No job is ever completed, and no synchronous run ever answered with
\* success, with an absent or empty result.
C23_NoTextIsFailure ==
  /\ \A r \in Runs :
       LET rec == run[r]
       IN rec.analyze = "null" =>
            /\ rec.pc = "done"
            /\ rec.kind = "job" =>
                 /\ Len(rec.marked) = 1
                 /\ rec.marked[1].op = "markFailed"
                 /\ rec.marked[1].value = NoResultMessage
                 /\ rec.jobId \in DOMAIN jobs =>
                      /\ jobs[rec.jobId].status = "failed"
                      /\ jobs[rec.jobId].error = NoResultMessage
                      /\ jobs[rec.jobId].result = Undefined
            /\ rec.kind = "sync" => resp[r] = FailureResponse(NoResultMessage)
  /\ \A id \in DOMAIN jobs :
       jobs[id].status = "completed" => jobs[id].result \notin {Undefined, ""}
  /\ \A r \in Runs :
       resp[r].code = 200 => resp[r].result \notin {Undefined, ""}

C23_Witness ==
  \E r \in JobRuns :
    /\ run[r].analyze = "null" /\ run[r].generated
    /\ run[r].jobId \in DOMAIN jobs
    /\ jobs[run[r].jobId].status = "failed"
    /\ jobs[run[r].jobId].error = NoResultMessage

\* C24 as claimed: after a failed downloadVideo no file created by that call
\* exists.
C24_PartialFileDeleted ==
  \A r \in Runs :
    run[r].analyze = "fetchFailed" =>
      run[r].tempFilePath \notin files /\ run[r].finalFilePath \notin files

\* C24, amended: when downloadVideo fails (the GET is rejected, the response
\* stream or the writer reports an error), cleanupFile has been applied to the
\* temporary file before the caller sees the error: after the failed fetch
\* the temporary file no longer exists unless its deletion itself failed, the
\* final name was never given to a file, the caller holds no file path, and
\* the job, if its record is in the store, is failed with the error's message.
C24_PartialFileCleaned ==
  \A r \in Runs :
    LET rec == run[r]
    IN rec.analyze = "fetchFailed" =>
         /\ rec.pc = "done" /\ rec.filePath = NoPath
         /\ rec.finalFilePath \notin files
         /\ \/ rec.tempFilePath \notin files
            \/ rec.tempFilePath \in rec.unlinkFailed
         /\ rec.kind = "job" =>
              /\ Len(rec.marked) = 1 /\ rec.marked[1].op = "markFailed"
              /\ rec.marked[1].value \in ThrownMessages
              /\ rec.jobId \in DOMAIN jobs =>
                   /\ jobs[rec.jobId].status = "failed"
                   /\ jobs[rec.jobId].error = rec.marked[1].value

C24_Witness ==
  \E r \in JobRuns :
    /\ run[r].analyze = "fetchFailed"
    /\ run[r].finalFilePath # NoPath
    /\ run[r].tempFilePath \notin files /\ run[r].unlinkFailed = {}
    /\ run[r].jobId \in DOMAIN jobs
    /\ jobs[run[r].jobId].status = "failed"

C26_Expected(contentType) ==
  CASE contentType = <<"application/octet-stream">> ->
         [ext |-> ".mp4", mimeType |-> <<"application/octet-stream">>]
    [] contentType = <<"video/webm", ";", " ", "codecs=vp9">> ->
         [ext |-> ".webm", mimeType |-> <<"video/webm">>]
    [] contentType = <<" ", "VIDEO/MP4", " ">> ->
         [ext |-> ".mp4", mimeType |-> <<"VIDEO/MP4">>]
    [] contentType = <<"Video/WebM">> ->
         [ext |-> ".webm", mimeType |-> <<"Video/WebM">>]
    [] contentType = <<"text/html", ";", " ", "charset=utf-8">> ->
         [ext |-> ".mp4", mimeType |-> <<"text/html">>]
    [] contentType = <<"video/quicktime">> ->
         [ext |-> ".mov", mimeType |-> <<"video/quicktime">>]

\* C26: the final file name carries the extension the table gives for the
\* declared type, looked up without its parameters and without regard to
\* case, and .mp4 for a type the table does not have; when downloadVideo
\* returns, the file exists under that name (the temporary name is gone) and
\* the returned type is the declared type with its parameters and surrounding
\* blanks removed: 'video/webm; codecs=vp9' yields '.webm' and 'video/webm'.
C26_ExtensionAndCleanType ==
  \A r \in Runs :
    LET rec == run[r]
    IN /\ rec.finalFilePath # NoPath =>
            rec.finalFilePath.ext = C26_Expected(rec.contentType).ext
       /\ rec.filePath # NoPath =>
            /\ rec.filePath = rec.finalFilePath
            /\ rec.mimeType = C26_Expected(rec.contentType).mimeType
       /\ rec.pc \in {"upload", "poll", "delay", "generate"} =>
            /\ rec.filePath # NoPath /\ rec.filePath \in files
            /\ rec.tempFilePath \notin files

C26_Witness ==
  \E r \in Runs :
    /\ run[r].pc = "upload"
    /\ run[r].contentType = WebmWithCodecs
    /\ run[r].filePath \in files /\ run[r].filePath.ext = ".webm"
    /\ run[r].mimeType = <<"video/webm">>

\* C27: a stored job keeps the id, videoUrl, prompt and createdAt it was
\* created with: the record inserted by createJob carries the id it is
\* stored under, the request's videoUrl and prompt and the time of creation,
\* and no step (markProcessing, markCompleted, markFailed included) changes
\* any of the four or the set of fields of the record.
C27_CreationFieldsKept ==
  /\ [](\A id \in DOMAIN jobs :
          /\ jobs[id].id = id
          /\ jobs[id].createdAt = born[id]
          /\ \E r \in JobRuns :
               /\ run[r].jobId = id
               /\ jobs[id].videoUrl = run[r].videoUrl
               /\ jobs[id].prompt = run[r].prompt)
  /\ [][\A id \in DOMAIN jobs \cap DOMAIN jobs' :
          /\ jobs'[id].id = jobs[id].id
          /\ jobs'[id].videoUrl = jobs[id].videoUrl
          /\ jobs'[id].prompt = jobs[id].prompt
          /\ jobs'[id].createdAt = jobs[id].createdAt
          /\ DOMAIN jobs'[id] = DOMAIN jobs[id]]_vars

C27_Witness ==
  \E id \in DOMAIN jobs :
    /\ jobs[id].status = "completed"
    /\ jobs[id].videoUrl = UrlTikTok
    /\ jobs[id].createdAt = 0 /\ jobs[id].updatedAt > 0
    /\ jobs[id].result = "a summary"

\* C28: the clock never goes back; every stored job has
\* createdAt <= updatedAt <= now; every step that updates a stored record
\* (markProcessing, markCompleted, markFailed on an id in the store) leaves
\* its updatedAt equal to the current time; and updatedAt of a stored record
\* never decreases.
C28_UpdatedAtMonotonic ==
  /\ [][now' >= now]_vars
  /\ [](\A id \in DOMAIN jobs :
          /\ jobs[id].createdAt <= jobs[id].updatedAt
          /\ jobs[id].updatedAt <= now)
  /\ [][\A id \in DOMAIN jobs \cap DOMAIN jobs' :
          /\ jobs'[id].updatedAt >= jobs[id].updatedAt
          /\ jobs'[id] # jobs[id] => jobs'[id].updatedAt = now']_vars
  /\ [][\A r \in JobRuns :
          /\ Len(run'[r].marked) > Len(run[r].marked)
          /\ run[r].jobId \in DOMAIN jobs
          => /\ run[r].jobId \in DOMAIN jobs'
             /\ jobs'[run[r].jobId].updatedAt = now']_vars

C28_Witness ==
  \E id \in DOMAIN jobs :
    /\ jobs[id].status = "failed"
    /\ jobs[id].createdAt = 0
    /\ jobs[id].updatedAt = RetentionMs /\ now = RetentionMs

\* the positions at which a run is suspended in an awaited call: the probe,
\* the retrieval and its stream (fetch), the upload, a poll, the delay
\* between two polls, the generation
InFlight == {"head", "get", "stream", "upload", "poll", "delay", "generate"}
PipelinesInFlight == {r \in JobRuns : run[r].pc \in InFlight}

\* C29: no cap and no blocking. In every state between two turns of the
\* event loop, whatever the number of pipelines suspended in fetch, in the
\* poll delay or in generation: a request in a free slot can create a job,
\* any job's status can be read, and every suspended run has a step of its own
\* to take, whatever the others are doing.
C29_NoCapNoBlocking ==
  turn = NoRun =>
    /\ \A r \in Runs :
         run[r].kind = "none" => ENABLED (\E rq \in Requests : CreateJob(r, rq))
    /\ \A id \in AskedIds : ENABLED GetJobStatus(GoodKey, id)
    /\ \A r \in Runs :
         run[r].pc \in InFlight =>
           ENABLED (\/ Download(r, {OctetStream}, {WebmWithCodecs})
                    \/ Analyze(r, MaxNotReady))

\* as many pipelines as there are request slots are in progress at once:
\* one in fetch, the others past it
C29_Witness ==
  /\ PipelinesInFlight = Runs
  /\ turn = NoRun
  /\ \E r \in Runs : run[r].pc = "stream"
  /\ \A r \in Runs \ {1} : run[r].pc \in {"delay", "generate"}
  /\ \A r \in Runs : StatusOf(run[r].jobId) = "processing"

\* the pipelines launched for the job stored under id
PipelinesOf(id) == {r \in JobRuns : run[r].jobId = id}

\* C30: every record createJob inserted has exactly one background pipeline,
\* launched in the turn that inserted it and never launched again; and a
\* stored record changes only in a step in which that pipeline, and no other
\* run, moves: no other pipeline, no synchronous run and no status read
\* updates it (its purge timer alone removes it).
C30_OnePipelineSoleWriter ==
  /\ [](\A id \in DOMAIN born :
          /\ Cardinality(PipelinesOf(id)) = 1
          /\ \A r \in PipelinesOf(id) :
               /\ turn = NoRun => run[r].pc # "launch"
               /\ run[r].pc # "launch" => run[r].downloads = 1)
  /\ [](\A r \in SyncRuns : run[r].marked = <<>> /\ run[r].jobId \notin DOMAIN born)
  /\ [][\A r \in Runs : run'[r].pc = "launch" => run[r].pc \in {"idle", "launch"}]_vars
  /\ [][\A id \in DOMAIN jobs :
          getJob(id)' # jobs[id] =>
            \/ \E t \in timers \ timers' : t.id = id
            \/ /\ \E r \in PipelinesOf(id) :
                    /\ run'[r] # run[r]
                    /\ \A q \in Runs \ {r} : run'[q] = run[q]
               /\ UNCHANGED <<statusResp, statusReq>>]_vars

C30_Witness ==
  \E p \in JobRuns, q \in SyncRuns :
    /\ StatusOf(run[p].jobId) = "failed"
    /\ run[q].pc = "done" /\ resp[q].code = 200
    /\ statusResp.code = 200 /\ statusResp.jobId = run[p].jobId
    /\ statusResp.status = "processing"

\* the timing breakdown <<download, upload, processing, total>> a step
\* records: on the job it completes, or in the success response it sends
C31_Recorded(r) ==
  IF run[r].kind = "job" THEN getJob(run[r].jobId)'.processingTime
                         ELSE resp'[r].processingTime

\* C31: in the breakdown recorded when a run succeeds, with T the time
\* elapsed since the analyze stage began: upload is floor(T / 5), that is
\* 5 * upload <= T < 5 * (upload + 1); upload + processing = T; download is
\* the time the fetch took; total >= download + upload + processing; and
\* the four values are non-negative integers.
C31_TimingBreakdown ==
  [][\A r \in Runs :
       /\ run[r].pc # "done" /\ run'[r].pc = "done" /\ run'[r].analyze = "text"
       /\ run[r].kind = "job" => run[r].jobId \in DOMAIN jobs'
       => LET timing == C31_Recorded(r)
              T == now' - run[r].uploadStart
          IN /\ Len(timing) = 4
             /\ \A i \in 1..4 : timing[i] \in Nat
             /\ 5 * timing[2] <= T /\ T < 5 * (timing[2] + 1)
             /\ timing[2] + timing[3] = T
             /\ timing[1] = run[r].uploadStart - run[r].downloadStart
             /\ timing[4] >= timing[1] + timing[2] + timing[3]]_vars

C31_Witness ==
  \E id \in DOMAIN jobs :
    /\ jobs[id].status = "completed"
    /\ jobs[id].processingTime = <<1, 1, 5, 7>>

\* the paths run r generated: its temporary and its final file name
PathsOf(r) == {run[r].tempFilePath, run[r].finalFilePath} \ {NoPath}

\* C32: the paths of distinct runs are distinct, every file in the temp
\* directory is a file of some run, and a file of a run appears, is renamed
\* or disappears only in a step of that run in which no other run moves: no
\* pipeline and no synchronous run removes or renames a file of another.
C32_OwnFilesOnly ==
  /\ [](\A p, q \in Runs : p # q => PathsOf(p) \cap PathsOf(q) = {})
  /\ [](\A f \in files : \E r \in Runs : f \in PathsOf(r))
  /\ [][\A r \in Runs : \A f \in PathsOf(r) :
          (f \in files) # (f \in files') =>
            /\ run'[r] # run[r]
            /\ \A q \in Runs \ {r} : run'[q] = run[q]]_vars

C32_Witness ==
  \E p, q \in Runs :
    /\ run[p].kind = "job" /\ run[q].kind = "sync"
    /\ run[p].pc = "done" /\ run[p].filePath # NoPath
    /\ run[p].filePath \notin files
    /\ run[q].pc = "generate" /\ run[q].filePath \in files
    /\ files = {run[q].filePath}

\* C33: no status read observes pending. A read is answered only between
\* two turns, and between two turns no stored job is pending, because
\* markProcessing runs in createJob's own turn; so every answer of
\* getJobStatus is 404 or carries processing, completed or failed.
C33_ReadsNeverPending ==
  /\ [](turn = NoRun => \A id \in DOMAIN jobs : jobs[id].status # "pending")
  /\ [](statusResp # NoResp =>
          /\ statusResp.code \in {200, 404}
          /\ statusResp.code = 200 =>
               statusResp.status \in {"processing", "completed", "failed"})
  /\ [][statusResp' # statusResp \/ statusReq' # statusReq => turn = NoRun]_vars

C33_Witness ==
  \E r \in JobRuns :
    /\ run[r].pc = "head" /\ run[r].downloadStart = 0
    /\ resp[r].code = 202 /\ resp[r].status = "pending"
    /\ statusResp.code = 200 /\ statusResp.jobId = run[r].jobId
    /\ statusResp.status = "processing"

\* the pending purge timers of id
TimersOf(id) == {t \in timers : t.id = id}

\* C34: every stored record has exactly one pending purge timer, due one
\* retention period after its creation, and is never older than that
\* period; every pending purge timer is that of a stored record, set by the
\* one createJob that made the record; a timer is set only together with a
\* new record, one at a time; and a purge removes its timer and the record of
\* its id, if there is one, and nothing else.
C34_OneTimerPerRecord ==
  /\ [](\A id \in DOMAIN jobs :
          /\ TimersOf(id) = {[id |-> id, due |-> jobs[id].createdAt + RetentionMs]}
          /\ now - jobs[id].createdAt <= RetentionMs)
  /\ [](\A t \in timers :
          /\ t.id \in DOMAIN jobs
          /\ Cardinality({r \in JobRuns : run[r].jobId = t.id}) = 1)
  /\ [][/\ Cardinality(timers' \ timers) <= 1
        /\ \A t \in timers' \ timers :
             t.id \notin DOMAIN jobs /\ t.id \in DOMAIN jobs'
        /\ \A t \in timers \ timers' :
             /\ timers' = timers \ {t}
             /\ jobs' = [i \in DOMAIN jobs \ {t.id} |-> jobs[i]]]_vars

C34_Witness ==
  \E p, q \in JobRuns :
    /\ born[run[p].jobId] = 0 /\ born[run[q].jobId] = RetentionMs
    /\ getJob(run[p].jobId) = NoJob
    /\ DOMAIN jobs = {run[q].jobId}
    /\ timers = {[id |-> run[q].jobId, due |-> 2 * RetentionMs]}

\* C35: while the file service never answers ACTIVE, whatever other state
\* it reports (FAILED included), every answered poll consumes one attempt
\* and is followed by one 10 s delay, the 60th too; nothing is generated;
\* and a run that has begun to poll ends only by a poll that throws or,
\* after 60 attempts and 60 delays, by the timeout error.
C35_NotActiveIsNotReady ==
  /\ [](\A r \in Runs :
          LET rec == run[r]
          IN /\ rec.waited = rec.attempts * PollDelayMs
             /\ rec.attempts <= maxAttempts
             /\ ~ rec.generated /\ ~ rec.fileReady
             /\ rec.pc = "done" /\ rec.polls >= 1 =>
                  rec.analyze \in {"timeout", "pollThrew"}
             /\ rec.analyze = "timeout" =>
                  /\ rec.attempts = maxAttempts /\ rec.polls = maxAttempts
                  /\ rec.waited = maxAttempts * PollDelayMs
                  /\ rec.kind = "job" =>
                       /\ rec.marked[1].op = "markFailed"
                       /\ rec.marked[1].value = TimeoutMessage)
  /\ [][\A r \in Runs :
          run[r].pc = "poll" /\ run'[r] # run[r] =>
            \/ /\ run'[r].pc = "delay"
               /\ run'[r].attempts = run[r].attempts + 1
               /\ run'[r].waited = run[r].waited + PollDelayMs
            \/ run'[r].pc = "done" /\ run'[r].analyze = "pollThrew"]_vars

C35_Witness ==
  \E r \in JobRuns :
    /\ run[r].pc = "done" /\ run[r].analyze = "timeout"
    /\ run[r].attempts = maxAttempts
    /\ run[r].waited = maxAttempts * PollDelayMs
    /\ StatusOf(run[r].jobId) = "failed"
    /\ jobs[run[r].jobId].error = TimeoutMessage

\* the positions of an effect in the record of what the end of a run did
C36_At(rec, effect) == {i \in DOMAIN rec.effects : rec.effects[i] = effect}

\* C36: every synchronous run sends exactly one response. It has none while
\* it runs and one once it is over; the response is either 200 with the
\* result and the timing breakdown, after analyze returned a text, or 500
\* with the message of the failure, and is never replaced; the cleanup of the
\* downloaded file is made whenever downloadVideo returned a file, and after
\* the response; and a synchronous run whose awaited calls all return or fail
\* eventually responds.
C36_OneResponse ==
  /\ [](\A r \in SyncRuns :
          LET rec == run[r]
          IN /\ rec.pc = "done" <=> resp[r] # NoResp
             /\ rec.marked = <<>>
             /\ resp[r] # NoResp =>
                  /\ Cardinality(C36_At(rec, "respond")) = 1
                  /\ IF rec.analyze = "text"
                       THEN /\ DOMAIN resp[r] =
                                 {"code", "success", "result", "processingTime"}
                            /\ resp[r].code = 200 /\ resp[r].success
                            /\ resp[r].result \in Texts \ {""}
                            /\ Len(resp[r].processingTime) = 4
                       ELSE /\ DOMAIN resp[r] =
                                 {"code", "success", "error", "message"}
                            /\ resp[r].code = 500 /\ ~ resp[r].success
                            /\ resp[r].message \in FailureMessages(rec.analyze)
                  /\ rec.filePath # NoPath <=> C36_At(rec, "cleanup") # {}
                  /\ \A i \in C36_At(rec, "cleanup") :
                       \E j \in C36_At(rec, "respond") : j < i)
  /\ [][\A r \in Runs : resp[r] # NoResp => resp'[r] = resp[r]]_vars
  /\ \A r \in Runs : (run[r].kind = "sync") ~> (resp[r] # NoResp)

C36_Witness ==
  \E r \in SyncRuns :
    /\ run[r].pc = "done" /\ run[r].analyze = "null"
    /\ resp[r] = FailureResponse(NoResultMessage)
    /\ run[r].effects = <<"respond", "cleanup">>
    /\ run[r].filePath # NoPath /\ run[r].filePath \notin files

====
